---- MODULE Spec2Model ----
(***************************************************************************)
(* PodPulse: one relational store (podcasts, podcasts_items) operated by   *)
(* three front ends:                                                       *)
(*   - the HTTP API        (backend/app/main.py over app/repository.py)    *)
(*   - the sync driver     (backend/schedule.py)                           *)
(*   - the console tool    (console/pod.py)                                *)
(* Every handler is one atomic action; the loops inside a handler are      *)
(* RECURSIVE operators that follow the code statement by statement.        *)
(* Network results (feed documents, media transfers, tagging) are inputs   *)
(* drawn with \E.                                                          *)
(***************************************************************************)
EXTENDS Integers, Sequences, FiniteSets, TLC

VARIABLES podcasts, items, feeds, files, nextPodcastId, nextItemId,
          favorites, nextFavId, del, ins, call, dl

vars == <<podcasts, items, feeds, files, nextPodcastId, nextItemId,
          favorites, nextFavId, del, ins, call, dl>>

(***************************************************************************)
(* Bounds of the model.                                                    *)
(***************************************************************************)
MaxPodcasts == 2
MaxItems == 2
MaxFeedLen == 2
MaxFavs == 2
MaxNameLen == 3         \* length of the drawn names
MaxUrlLen == 4          \* length of the drawn media URLs

(***************************************************************************)
(* Values.                                                                 *)
(***************************************************************************)
Null == "NULL"          \* SQL NULL / Python None in a text column
NullInt == -1           \* SQL NULL in an integer column
NoName == <<>>          \* filename IS NULL
EmptyName == <<"">>     \* filename = ''
Unbound == <<>>         \* a Python local that was never assigned
NoLimit == <<>>         \* limit=None

HttpSources == {"http://a", "http://b"}
Sources == HttpSources \cup {"missing.xml"}

\* The POST /podcasts payloads the model submits (itunes_id, rss_url): two
\* catalog entries on the same feed, one on a second feed, and one whose
\* feed location is a local path that does not exist.
Payloads ==
    { <<1, "http://a">>, <<2, "http://a">>, <<2, "http://b">>, <<2, "missing.xml">> }

\* Entries a feed document can carry: guid, publish day (UTC calendar day
\* number), title, and whether the entry has an enclosure.  The two feeds
\* share the guid g1; g1 and g3 of feed a are published on the same day.
EntryPool(src) ==
    IF src = "http://a"
    THEN { [guid |-> "g1", day |-> 1, title |-> "A", enc |-> TRUE],
           [guid |-> "g2", day |-> 2, title |-> "B", enc |-> TRUE],
           [guid |-> "g3", day |-> 1, title |-> "A", enc |-> TRUE] }
    ELSE { [guid |-> "g1", day |-> 2, title |-> "",  enc |-> FALSE] }

\* entry.enclosures[0].href: every enclosure is a URL with an .mp3 path
MediaUrlOf(e) == "http://m/ep.mp3"

(***************************************************************************)
(* Helpers shared by the three front ends.                                 *)
(***************************************************************************)
\* rss_url.startswith("http")
startswith_http(rss) == rss \in HttpSources

\* os.path.exists(rss_url): no local feed file exists in the model
path_exists(rss) == FALSE

\* feedparser.parse(rss).entries: the document behind a URL, and no entry
\* at all for a location that cannot be read (feedparser does not raise).
parse_entries(rss) == IF rss \in DOMAIN feeds THEN feeds[rss] ELSE <<>>

\* int(datetime(y, m, d).timestamp() * 1000)
TrackId(e) == (e.day * 86400) * 1000

RECURSIVE SortAsc(_)
SortAsc(S) ==
    IF S = {} THEN <<>>
    ELSE LET m == CHOOSE x \in S : \A y \in S : x.id <= y.id
         IN <<m>> \o SortAsc(S \ {m})

RECURSIVE SortDesc(_)
SortDesc(S) ==
    IF S = {} THEN <<>>
    ELSE LET m == CHOOSE x \in S : \A y \in S : y.id <= x.id
         IN <<m>> \o SortDesc(S \ {m})

\* ext = Path(media_url.split("?")[0]).suffix or ".mp3"
\* title_part = safe_filename(title or f"track-{track_id}")
\* fname = f"pod{podcast_id}-trk{track_id}-{title_part}{ext}"
fname(podcast_id, track_id, title) ==
    <<"pod", podcast_id, "trk", track_id,
      IF title = "" THEN "track-<track_id>" ELSE title, ".mp3">>

(***************************************************************************)
(* Repository (backend/app/repository.py)                                  *)
(***************************************************************************)
\* the dedup-insert that overwrites the content of the row it finds
add_podcast_item_upsert(its, nid, item) ==
    LET found == { x \in its : x.podcast_id = item.podcast_id /\ x.track_id = item.track_id }
    IN IF found # {}
       THEN LET first == CHOOSE x \in found : \A y \in found : x.id <= y.id
                upd == [item EXCEPT !.id = first.id]
            IN [items |-> (its \ {first}) \cup {upd}, next |-> nid, row |-> upd]
       ELSE [items |-> its \cup {[item EXCEPT !.id = nid]}, next |-> nid + 1,
             row |-> [item EXCEPT !.id = nid]]

\* existing = s.exec(select ... podcast_id, track_id).first(): the table is
\* scanned in id order; items/next are the table and the id sequence after
\* the call, row is the PodcastItem returned.
add_podcast_item_if_not_exists(its, nid, item) ==
    LET found == { x \in its : x.podcast_id = item.podcast_id /\ x.track_id = item.track_id }
    IN IF found # {}
       THEN [items |-> its, next |-> nid,
             row |-> CHOOSE x \in found : \A y \in found : x.id <= y.id]
       ELSE [items |-> its \cup {[item EXCEPT !.id = nid]}, next |-> nid + 1,
             row |-> [item EXCEPT !.id = nid]]

\* the UPDATE without its row filter
repo_suspend_podcast_all(pods, podcast_id, suspended) ==
    { [p EXCEPT !.suspended = IF suspended # 0 THEN 1 ELSE 0] : p \in pods }

repo_suspend_podcast(pods, podcast_id, suspended) ==
    { IF p.id = podcast_id
      THEN [p EXCEPT !.suspended = IF suspended # 0 THEN 1 ELSE 0]
      ELSE p : p \in pods }

\* PodcastItemModel(...) as built by the API and by the sync driver
NewItem(p, e) ==
    [id |-> 0, podcast_id |-> p.id, track_id |-> TrackId(e), guid |-> e.guid,
     title |-> e.title,
     media_url |-> IF e.enc THEN MediaUrlOf(e) ELSE Null,
     filename |-> NoName, downloaded |-> 0, watched |-> 0]

(***************************************************************************)
(* HTTP API (backend/app/main.py)                                          *)
(***************************************************************************)
RECURSIVE api_insert_entries(_, _, _, _, _)
api_insert_entries(its, nid, p, entries, i) ==
    IF i > Len(entries) THEN [items |-> its, next |-> nid]
    ELSE LET r == add_podcast_item_if_not_exists(its, nid, NewItem(p, entries[i]))
         IN api_insert_entries(r.items, r.next, p, entries, i + 1)

\* POST /podcasts, as a function of the store: the rows after the call and
\* the HTTP status returned.
api_create_podcast(pods, its, npid, nid, itunes_id, rss_url) ==
    IF \E p \in pods : p.itunes_id = itunes_id
    THEN [podcasts |-> pods, items |-> its, nextPodcast |-> npid, next |-> nid,
          status |-> 200]
    ELSE LET created == [id |-> npid, rss_url |-> rss_url,
                         itunes_id |-> itunes_id, suspended |-> 0]
         IN IF ~startswith_http(rss_url) /\ ~path_exists(rss_url)
            THEN [podcasts |-> pods \cup {created}, items |-> its,
                  nextPodcast |-> npid + 1, next |-> nid, status |-> 400]
            ELSE LET r == api_insert_entries(its, nid, created, parse_entries(rss_url), 1)
                 IN [podcasts |-> pods \cup {created}, items |-> r.items,
                     nextPodcast |-> npid + 1, next |-> r.next, status |-> 200]

create_podcast(itunes_id, rss_url) ==
    LET r == api_create_podcast(podcasts, items, nextPodcastId, nextItemId,
                                itunes_id, rss_url)
    IN /\ r.nextPodcast <= MaxPodcasts + 1
       /\ r.next <= MaxItems + 1
       /\ podcasts' = r.podcasts
       /\ items' = r.items
       /\ nextPodcastId' = r.nextPodcast
       /\ nextItemId' = r.next
       /\ UNCHANGED <<call, dl, favorites, nextFavId, del, ins, feeds, files>>

\* PATCH /podcasts/{id}/suspend and /continue
suspend_podcast(podcast_id, suspended) ==
    /\ podcasts' = repo_suspend_podcast(podcasts, podcast_id, suspended)
    /\ UNCHANGED <<call, dl, favorites, nextFavId, del, ins, items, feeds, files, nextPodcastId, nextItemId>>

(***************************************************************************)
(* Sync driver (backend/schedule.py)                                       *)
(***************************************************************************)
\* The inner "for entry in feed.entries" loop of update_rss_items: it only
\* assigns the local `item`; the value after the loop is the result.
RECURSIVE scan_entries(_, _, _, _, _)
scan_entries(its, p, entries, i, item) ==
    IF i > Len(entries) THEN item
    ELSE IF \E x \in its : x.podcast_id = p.id /\ x.track_id = TrackId(entries[i])
         THEN scan_entries(its, p, entries, i + 1, item)
         ELSE scan_entries(its, p, entries, i + 1, <<NewItem(p, entries[i])>>)

\* the loop storing the item it holds under the podcast of the iteration
RECURSIVE update_rss_loop_rebind(_, _, _, _, _, _)
update_rss_loop_rebind(pods, k, its, nid, item, refreshed) ==
    IF k > Len(pods)
    THEN [items |-> its, next |-> nid, abort |-> "none", refreshed |-> refreshed]
    ELSE IF ~startswith_http(pods[k].rss_url)
         THEN [items |-> its, next |-> nid, abort |-> "NameError",
               refreshed |-> refreshed]
         ELSE LET it == scan_entries(its, pods[k], parse_entries(pods[k].rss_url), 1, item)
              IN IF it = Unbound
                 THEN [items |-> its, next |-> nid, abort |-> "unbound_item",
                       refreshed |-> refreshed]
                 ELSE LET r == add_podcast_item_if_not_exists(its, nid,
                                   [it[1] EXCEPT !.podcast_id = pods[k].id])
                      IN update_rss_loop_rebind(pods, k + 1, r.items, r.next, it,
                                                refreshed \cup {pods[k].id})

\* The "for p in podcasts" loop of update_rss_items.  `item` is the Python
\* local, which survives from one podcast to the next.
RECURSIVE update_rss_loop(_, _, _, _, _, _)
update_rss_loop(pods, k, its, nid, item, refreshed) ==
    IF k > Len(pods)
    THEN [items |-> its, next |-> nid, abort |-> "none", refreshed |-> refreshed]
    ELSE IF ~startswith_http(pods[k].rss_url)
         THEN \* os.path.exists(rss_url): schedule.py does not import os, so
              \* the name lookup raises NameError before the path is looked at
              [items |-> its, next |-> nid, abort |-> "NameError",
               refreshed |-> refreshed]
         ELSE LET it == scan_entries(its, pods[k], parse_entries(pods[k].rss_url), 1, item)
              IN IF it = Unbound
                 THEN \* repo.add_podcast_item_if_not_exists(item): unbound local
                      [items |-> its, next |-> nid, abort |-> "unbound_item",
                       refreshed |-> refreshed]
                 ELSE LET r == add_podcast_item_if_not_exists(its, nid, it[1])
                      IN update_rss_loop(pods, k + 1, r.items, r.next, it,
                                         refreshed \cup {pods[k].id})

update_rss_items(pods, its, nid) ==
    update_rss_loop(SortAsc({p \in pods : p.suspended = 0}), 1, its, nid, Unbound, {})

\* the SELECT without its WHERE clause
pending_items_all(its) == SortDesc(its)

\* the SELECT ordered by id ascending
pending_items_asc(its) ==
    SortAsc({it \in its : it.downloaded = 0 \/ it.downloaded = NullInt})

\* select(PodcastItem).where(downloaded == 0 | downloaded IS NULL).order_by(desc(id))
pending_items(its) ==
    SortDesc({it \in its : it.downloaded = 0 \/ it.downloaded = NullInt})

\* The "for it in items" loop of run().  outcome[id] is what download_one
\* does for that item: "ok", "status" (raise_for_status fails, no file is
\* opened) or "midstream" (the stream breaks after dest was opened).
RECURSIVE download_loop(_, _, _, _, _, _, _, _)
download_loop(todo, i, its, updated, limit, dry_run, outcome, log) ==
    IF i > Len(todo) THEN [items |-> its, log |-> log, updated |-> updated]
    ELSE IF limit # NoLimit /\ updated >= limit[1]
         THEN [items |-> its, log |-> log, updated |-> updated]
    ELSE IF todo[i].media_url = Null \/ todo[i].media_url = ""
         THEN download_loop(todo, i + 1, its, updated, limit, dry_run, outcome, log)
    ELSE IF dry_run
         THEN \* filename is set on the session object only; nothing is committed
              download_loop(todo, i + 1, its, updated, limit, dry_run, outcome, log)
    ELSE IF outcome[todo[i].id] = "ok"
         THEN download_loop(todo, i + 1,
                  { IF x.id = todo[i].id
                    THEN [x EXCEPT !.filename = fname(x.podcast_id, x.track_id, x.title),
                                   !.downloaded = 1]
                    ELSE x : x \in its },
                  updated + 1, limit, dry_run, outcome,
                  Append(log, [id |-> todo[i].id, outcome |-> "ok"]))
         ELSE download_loop(todo, i + 1, its, updated, limit, dry_run, outcome,
                  Append(log, [id |-> todo[i].id, outcome |-> outcome[todo[i].id]]))

TransferOutcomes == {"ok", "status", "midstream"}
Limits == {NoLimit, <<1>>}

\* The inputs of a run are the results of the transfers it tries: one per
\* stored item.
Transferable(its) == { x.id : x \in its }

\* run() whose download loop never looks at the limit
sync_run_no_limit(pods, its, nid, limit, dry_run, outcome) ==
    LET u == update_rss_items(pods, its, nid)
    IN IF u.abort # "none"
       THEN [items |-> u.items, next |-> u.next, abort |-> u.abort,
             refreshed |-> u.refreshed, downloadPhase |-> FALSE, log |-> <<>>]
       ELSE LET d == download_loop(pending_items(u.items), 1, u.items, 0,
                                   NoLimit, dry_run, outcome, <<>>)
            IN [items |-> d.items, next |-> u.next, abort |-> "none",
                refreshed |-> u.refreshed, downloadPhase |-> TRUE, log |-> d.log]

\* run(limit, dry_run) as a function of the store.  The result tells which
\* podcasts were refreshed, whether update_rss_items raised (the exception
\* leaves run() before the download phase), and the transfers attempted, in
\* order.
sync_run(pods, its, nid, limit, dry_run, outcome) ==
    LET u == update_rss_items(pods, its, nid)
    IN IF u.abort # "none"
       THEN [items |-> u.items, next |-> u.next, abort |-> u.abort,
             refreshed |-> u.refreshed, downloadPhase |-> FALSE, log |-> <<>>]
       ELSE LET d == download_loop(pending_items(u.items), 1, u.items, 0,
                                   limit, dry_run, outcome, <<>>)
            IN [items |-> d.items, next |-> u.next, abort |-> "none",
                refreshed |-> u.refreshed, downloadPhase |-> TRUE, log |-> d.log]

run(limit, dry_run) ==
    \E outcome \in [Transferable(update_rss_items(podcasts, items, nextItemId).items)
                        -> IF dry_run THEN {"ok"} ELSE TransferOutcomes] :
        LET r == sync_run(podcasts, items, nextItemId, limit, dry_run, outcome)
        IN /\ r.next <= MaxItems + 1
           /\ items' = r.items
           /\ nextItemId' = r.next
           /\ UNCHANGED <<call, dl, favorites, nextFavId, del, ins, podcasts, feeds, files, nextPodcastId>>

(***************************************************************************)
(* Console tool (console/pod.py)                                           *)
(***************************************************************************)
\* SELECT COUNT(guid) FROM podcasts_items WHERE guid = '<guid>'
itemIsFetched(its, guid) == \E x \in its : x.guid = guid

\* The row INSERTed by fetchPodcastItems (watched is not in the column list)
CliItem(nid, podcastId, e) ==
    [id |-> nid, podcast_id |-> podcastId, track_id |-> TrackId(e), guid |-> e.guid,
     title |-> e.title,
     media_url |-> IF e.enc THEN MediaUrlOf(e) ELSE "",
     filename |-> EmptyName, downloaded |-> 0, watched |-> NullInt]

RECURSIVE fetch_entries(_, _, _, _, _)
fetch_entries(its, nid, podcastId, entries, i) ==
    IF i > Len(entries) THEN [items |-> its, next |-> nid]
    ELSE IF itemIsFetched(its, entries[i].guid)
         THEN fetch_entries(its, nid, podcastId, entries, i + 1)
         ELSE fetch_entries(its \cup {CliItem(nid, podcastId, entries[i])}, nid + 1,
                            podcastId, entries, i + 1)

\* fetchPodcastItems(conn, podcastId) on the store (pods, its)
fetchPodcastItems(pods, its, nid, podcastId) ==
    IF \E p \in pods : p.id = podcastId
    THEN LET p == CHOOSE q \in pods : q.id = podcastId
         IN fetch_entries(its, nid, podcastId, parse_entries(p.rss_url), 1)
    ELSE [items |-> its, next |-> nid]

\* fetchAllItems(conn): SELECT id FROM podcasts, then one fetch per row
RECURSIVE fetch_all_loop(_, _, _, _, _)
fetch_all_loop(rows, k, pods, its, nid) ==
    IF k > Len(rows) THEN [items |-> its, next |-> nid]
    ELSE LET r == fetchPodcastItems(pods, its, nid, rows[k].id)
         IN fetch_all_loop(rows, k + 1, pods, r.items, r.next)

fetchAllItems(pods, its, nid) == fetch_all_loop(SortAsc(pods), 1, pods, its, nid)

\* UPDATE podcasts_items SET filename = ?, downloaded = 1 WHERE guid = ?
updateDownloadedState(its, guid, filename) ==
    { IF x.guid = guid THEN [x EXCEPT !.filename = filename, !.downloaded = 1]
      ELSE x : x \in its }

\* The SELECT of downloadPodcasts, stepped lazily by the sqlite3 cursor: the
\* next row in "ORDER BY podcasts_items.id DESC" below `below` that satisfies
\* the WHERE clause in the store as it is when the statement is stepped.
next_row(pods, its, id, below) ==
    LET S == { x \in its : /\ x.id < below
                           /\ x.podcast_id = id
                           /\ x.downloaded = 0
                           /\ \E p \in pods : p.id = id /\ p.suspended = 0 }
    IN IF S = {} THEN <<>>
       ELSE <<CHOOSE x \in S : \A y \in S : y.id <= x.id>>

\* The "for row in rows" loop of downloadPodcasts.  `cur` is the row the
\* cursor has already stepped to; the cursor steps to the following row
\* before the body of the current one runs.  outcome[id] is "ok", "tagfail"
\* (transfer fine, tagging raises), "status" (no file opened) or "midstream".
RECURSIVE download_rows(_, _, _, _, _, _, _)
download_rows(cur, pods, its, fls, id, outcome, log) ==
    IF cur = <<>> THEN [items |-> its, files |-> fls, log |-> log]
    ELSE LET row == cur[1]
             nxt == next_row(pods, its, id, row.id)
             dest == fname(row.podcast_id, row.track_id, row.title)
             \* str(None) is "None": not a URL, httpx refuses it before any I/O
             res == IF row.media_url = Null THEN "status" ELSE outcome[row.id]
         IN IF row.media_url = ""
            THEN download_rows(nxt, pods, its, fls, id, outcome, log)
            ELSE IF dest \in fls
            THEN download_rows(nxt, pods, its, fls, id, outcome, log)
            ELSE IF res = "status"
            THEN download_rows(nxt, pods, its, fls, id, outcome,
                               Append(log, [id |-> row.id, outcome |-> res]))
            ELSE IF res = "ok"
            THEN download_rows(nxt, pods, updateDownloadedState(its, row.guid, dest),
                               fls \cup {dest}, id, outcome,
                               Append(log, [id |-> row.id, outcome |-> res]))
            ELSE download_rows(nxt, pods, its, fls \cup {dest}, id, outcome,
                               Append(log, [id |-> row.id, outcome |-> res]))

downloadPodcasts(pods, its, fls, id, outcome, log) ==
    download_rows(next_row(pods, its, id, MaxItems + 2), pods, its, fls, id, outcome, log)

\* dowloadAllPodcasts(conn): SELECT id FROM podcasts WHERE suspended = 0
RECURSIVE download_all_loop(_, _, _, _, _, _, _)
download_all_loop(rows, k, pods, its, fls, outcome, log) ==
    IF k > Len(rows) THEN [items |-> its, files |-> fls, log |-> log]
    ELSE LET r == downloadPodcasts(pods, its, fls, rows[k].id, outcome, log)
         IN download_all_loop(rows, k + 1, pods, r.items, r.files, outcome, r.log)

dowloadAllPodcasts(pods, its, fls, outcome) ==
    download_all_loop(SortAsc({p \in pods : p.suspended = 0}), 1, pods, its, fls,
                      outcome, <<>>)

CliOutcomes == {"ok", "tagfail", "status", "midstream"}

\* UPDATE podcasts SET suspended = ? WHERE id = ?
suspendPodcast(pods, id, suspend) ==
    { IF p.id = id THEN [p EXCEPT !.suspended = IF suspend THEN 1 ELSE 0] ELSE p
      : p \in pods }

\* deletePodcast(conn, id): DELETE FROM podcasts_items WHERE podcast_id = ?,
\* DELETE FROM podcasts WHERE id = ?
deletePodcast(id) ==
    /\ items' = { x \in items : x.podcast_id # id }
    /\ podcasts' = { p \in podcasts : p.id # id }
    /\ UNCHANGED <<call, dl, favorites, nextFavId, del, ins, feeds, files, nextPodcastId, nextItemId>>

(***************************************************************************)
(* Catalog operations of the API (main.py over repository.py) and of the   *)
(* console tool, as functions of the store.                                *)
(***************************************************************************)
\* Repository.get_podcast: the row in a one-element tuple, <<>> for None
get_podcast(pods, podcast_id) ==
    IF \E p \in pods : p.id = podcast_id
    THEN <<CHOOSE p \in pods : p.id = podcast_id>>
    ELSE <<>>

\* GET /podcasts/{podcast_id}
get_podcast_detail(pods, podcast_id) ==
    [status |-> IF get_podcast(pods, podcast_id) = <<>> THEN 404 ELSE 200]

\* PATCH /podcasts/{id}/suspend and /continue with the status they answer
api_suspend_podcast(pods, podcast_id, suspended) ==
    IF get_podcast(pods, podcast_id) = <<>>
    THEN [podcasts |-> pods, status |-> 404]
    ELSE [podcasts |-> repo_suspend_podcast(pods, podcast_id, suspended), status |-> 200]

\* delete_podcast_and_related that always answers True
delete_podcast_and_related_true(pods, its, favs, podcast_id) ==
    LET mine == { x \in its : x.podcast_id = podcast_id }
        track_ids == { x.track_id : x \in mine }
    IN [podcasts |-> { p \in pods : p.id # podcast_id },
        items |-> its \ mine,
        favorites |-> { f \in favs : f.track_id \notin track_ids },
        deleted |-> TRUE]

\* Repository.delete_podcast_and_related, one session and one commit
delete_podcast_and_related(pods, its, favs, podcast_id) ==
    LET mine == { x \in its : x.podcast_id = podcast_id }
        track_ids == { x.track_id : x \in mine }
        gone == { f \in favs : f.track_id \in track_ids }
    IN [podcasts |-> { p \in pods : p.id # podcast_id },
        items |-> its \ mine,
        favorites |-> favs \ gone,
        deleted |-> mine # {} \/ gone # {} \/ get_podcast(pods, podcast_id) # <<>>]

\* DELETE /podcasts/{podcast_id}
api_delete_podcast(pods, its, favs, podcast_id) ==
    LET r == delete_podcast_and_related(pods, its, favs, podcast_id)
    IN [podcasts |-> r.podcasts, items |-> r.items, favorites |-> r.favorites,
        status |-> IF r.deleted THEN 204 ELSE 404]

delete_podcast(podcast_id) ==
    LET r == api_delete_podcast(podcasts, items, favorites, podcast_id)
    IN /\ podcasts' = r.podcasts
       /\ items' = r.items
       /\ favorites' = r.favorites
       /\ UNCHANGED <<call, dl, feeds, files, nextPodcastId, nextItemId, nextFavId, del, ins>>

\* Repository.mark_item_watched_by_id / unmark_item_watched_by_id
mark_item_watched_by_id(its, item_id, watched) ==
    IF \E x \in its : x.id = item_id
    THEN [items |-> { IF x.id = item_id THEN [x EXCEPT !.watched = watched] ELSE x
                      : x \in its },
          updated |-> 1]
    ELSE [items |-> its, updated |-> 0]

\* POST and DELETE /episodes/{item_id}/watched
api_mark_watched(its, item_id, watched) ==
    LET r == mark_item_watched_by_id(its, item_id, watched)
    IN [items |-> r.items, status |-> IF r.updated = 0 THEN 404 ELSE 200]

mark_episode_watched(item_id, watched) ==
    /\ items' = api_mark_watched(items, item_id, watched).items
    /\ UNCHANGED <<call, dl, podcasts, feeds, files, nextPodcastId, nextItemId,
                   favorites, nextFavId, del, ins>>

\* POST /episodes/{item_id}/favorite: a FavoriteEpisode row for the item's
\* track_id; nothing looks for an existing favorite of that track.
favorite_episode(item_id) ==
    /\ \E x \in items : x.id = item_id
    /\ nextFavId <= MaxFavs
    /\ favorites' = favorites \cup
           {[id |-> nextFavId, track_id |-> (CHOOSE x \in items : x.id = item_id).track_id]}
    /\ nextFavId' = nextFavId + 1
    /\ UNCHANGED <<call, dl, podcasts, items, feeds, files, nextPodcastId, nextItemId, del, ins>>

\* Repository.remove_favorite_episode(track_id): the first favorite found
\* with that track_id is deleted; favorites and whether one was found
remove_favorite_episode(favs, track_id) ==
    LET found == { f \in favs : f.track_id = track_id }
    IN IF found = {} THEN [favorites |-> favs, ok |-> FALSE]
       ELSE [favorites |-> favs \ {CHOOSE f \in found : \A g \in found : f.id <= g.id},
             ok |-> TRUE]

\* DELETE /episodes/{item_id}/favorite (404 for an unknown item or when no
\* favorite is found: the store is left as it is)
unfavorite_episode(item_id) ==
    /\ \E x \in items : x.id = item_id
    /\ LET r == remove_favorite_episode(favorites,
                     (CHOOSE x \in items : x.id = item_id).track_id)
       IN /\ r.ok
          /\ favorites' = r.favorites
    /\ UNCHANGED <<call, dl, podcasts, items, feeds, files, nextPodcastId, nextItemId,
                   nextFavId, del, ins>>

\* isRssImported(conn, rss, itunes_id)
isRssImported(pods, rss, itunes_id) ==
    \E p \in pods : p.rss_url = rss /\ p.itunes_id = itunes_id

\* addPodcast(conn, id); feedUrl is what the catalog lookup answers for id
addPodcast(pods, its, npid, nid, id, feedUrl) ==
    IF isRssImported(pods, feedUrl, id)
    THEN [podcasts |-> pods, items |-> its, nextPodcast |-> npid, next |-> nid]
    ELSE LET created == [id |-> npid, rss_url |-> feedUrl, itunes_id |-> id,
                         suspended |-> 0]
             r == fetchPodcastItems(pods \cup {created}, its, nid, npid)
         IN [podcasts |-> pods \cup {created}, items |-> r.items,
             nextPodcast |-> npid + 1, next |-> r.next]

(***************************************************************************)
(* Pure helpers (schedule.py, pod.py, main.py) over texts                  *)
(* A text is a sequence of one-character strings.                          *)
(***************************************************************************)
NameLimit == 240        \* name[:240]

Letters ==
    {"a","b","c","d","e","f","g","h","i","j","k","l","m","n","o","p","q","r",
     "s","t","u","v","w","x","y","z","A","B","C","D","E","F","G","H","I","J",
     "K","L","M","N","O","P","Q","R","S","T","U","V","W","X","Y","Z"}
Digits == {"0","1","2","3","4","5","6","7","8","9"}
Whitespace == {" ", "\t"}

\* None where a text is expected
NoText == <<Null>>

\* str(n) for an int
RECURSIVE digits(_)
digits(n) ==
    IF n < 0 THEN <<"-">> \o digits(0 - n)
    ELSE IF n < 10 THEN << <<"0","1","2","3","4","5","6","7","8","9">>[n + 1] >>
    ELSE digits(n \div 10) \o digits(n % 10)

\* str(v) for a column value
py_str(v) == IF v = NoText THEN <<"N","o","n","e">> ELSE v

\* name.strip()
RECURSIVE lstrip(_)
lstrip(s) == IF s # <<>> /\ Head(s) \in Whitespace THEN lstrip(Tail(s)) ELSE s

RECURSIVE rstrip(_)
rstrip(s) ==
    IF s # <<>> /\ s[Len(s)] \in Whitespace
    THEN rstrip(SubSeq(s, 1, Len(s) - 1))
    ELSE s

strip(s) == rstrip(lstrip(s))

\* re.sub(r"\s+", "-", s) on the positions lo..hi of s: a whitespace
\* character that starts a run gives a hyphen, one that continues a run
\* gives nothing, every other character is copied
RECURSIVE sub_spaces(_, _, _)
sub_spaces(s, lo, hi) ==
    IF lo > hi THEN <<>>
    ELSE IF lo = hi
         THEN IF s[lo] \in Whitespace
              THEN IF lo > 1 /\ s[lo - 1] \in Whitespace THEN <<>> ELSE <<"-">>
              ELSE <<s[lo]>>
         ELSE LET mid == (lo + hi) \div 2
              IN sub_spaces(s, lo, mid) \o sub_spaces(s, mid + 1, hi)

\* [A-Za-z0-9.\-_]
IsSafe(c) == c \in Letters \cup Digits \cup {".", "-", "_"}

\* re.sub(r"[^A-Za-z0-9.\-_]", "", s)
sub_unsafe(s) == SelectSeq(s, IsSafe)

\* safe_filename without the final cut
safe_filename_uncut(name) == sub_unsafe(sub_spaces(strip(name), 1, Len(strip(name))))

safe_filename(name) ==
    LET cleaned == sub_unsafe(sub_spaces(strip(name), 1, Len(strip(name))))
    IN SubSeq(cleaned, 1, IF Len(cleaned) < NameLimit THEN Len(cleaned) ELSE NameLimit)

\* entry.published_parsed: the UTC calendar date of the publish instant
\* (seconds since the epoch), as a day number
published_parsed(published) == published \div 86400

\* datetime(tm_year, tm_mon, tm_mday).timestamp(): a datetime without tzinfo
\* is taken in the host's time zone; utcoffset is the host's offset from UTC
\* in seconds
naive_timestamp(day, utcoffset) == day * 86400 - utcoffset

\* track_id = int(_time * 1000), the same expression on the three paths
entry_track_id(published, utcoffset) ==
    naive_timestamp(published_parsed(published), utcoffset) * 1000

\* media_url.split("?")[0]
before_query(u) ==
    LET q == { i \in 1..Len(u) : u[i] = "?" }
    IN IF q = {} THEN u
       ELSE SubSeq(u, 1, (CHOOSE i \in q : \A j \in q : i <= j) - 1)

\* Path(p).name: the last component of p; pathlib drops empty components
\* and "." components when it parses p
RECURSIVE path_name(_)
path_name(p) ==
    IF p = <<>> THEN <<>>
    ELSE LET slashes == { i \in 1..Len(p) : p[i] = "/" }
             start == IF slashes = {} THEN 1
                      ELSE (CHOOSE i \in slashes : \A j \in slashes : j <= i) + 1
             last == SubSeq(p, start, Len(p))
         IN IF last = <<>> \/ last = <<".">>
            THEN path_name(SubSeq(p, 1, start - 2))
            ELSE last

\* PurePath.suffix: i = name.rfind('.'); name[i:] if 0 < i < len(name) - 1
suffix(name) ==
    LET dots == { i \in 1..Len(name) : name[i] = "." }
    IN IF dots = {} THEN <<>>
       ELSE LET d == CHOOSE i \in dots : \A j \in dots : j <= i
            IN IF d > 1 /\ d < Len(name) THEN SubSeq(name, d, Len(name)) ELSE <<>>

\* the destination name with the extension taken from the whole URL
derive_fname_with_query(podcast_id, track_id, title, media_url) ==
    LET sfx == suffix(path_name(media_url))
        ext == IF sfx = <<>> THEN <<".", "m", "p", "3">> ELSE sfx
        title_part == safe_filename(IF title = NoText \/ title = <<>>
                                    THEN <<"t", "r", "a", "c", "k", "-">> \o digits(track_id)
                                    ELSE title)
    IN <<"p", "o", "d">> \o digits(podcast_id) \o <<"-", "t", "r", "k">>
         \o digits(track_id) \o <<"-">> \o title_part \o ext

\* ext = Path(it.media_url.split("?")[0]).suffix or ".mp3"
\* title_part = safe_filename(it.title or f"track-{it.track_id}")
\* fname = f"pod{it.podcast_id}-trk{it.track_id}-{title_part}{ext}"
derive_fname(podcast_id, track_id, title, media_url) ==
    LET sfx == suffix(path_name(before_query(media_url)))
        ext == IF sfx = <<>> THEN <<".", "m", "p", "3">> ELSE sfx
        title_part == safe_filename(IF title = NoText \/ title = <<>>
                                    THEN <<"t", "r", "a", "c", "k", "-">> \o digits(track_id)
                                    ELSE title)
    IN <<"p", "o", "d">> \o digits(podcast_id) \o <<"-", "t", "r", "k">>
         \o digits(track_id) \o <<"-">> \o title_part \o ext

\* the same three lines in the console, on title = str(row[4]),
\* media_url = str(row[5]), podcast_id = int(row[8]), track_id = int(row[9])
cli_derive_fname(podcast_id, track_id, title, media_url) ==
    derive_fname(podcast_id, track_id, py_str(title), py_str(media_url))

(***************************************************************************)
(* Read operations of the API (app/repository.py, app/main.py)             *)
(***************************************************************************)
\* podcasts_items.publish_date as stored by the API and the sync driver:
\* publish_date=_time, a float (track_id is int(_time * 1000)), in a column
\* that models.py declares as str, so SQLite keeps the text of the float
publish_date(x) == digits(x.track_id \div 1000) \o <<".", "0">>

\* SQLite compares two texts byte by byte
CharRank(c) ==
    CASE c = "-" -> 45
      [] c = "." -> 46
      [] OTHER -> 48 + (CHOOSE n \in 0..9 : digits(n) = <<c>>)

RECURSIVE TextLess(_, _)
TextLess(a, b) ==
    IF b = <<>> THEN FALSE
    ELSE IF a = <<>> THEN TRUE
    ELSE IF Head(a) # Head(b) THEN CharRank(Head(a)) < CharRank(Head(b))
    ELSE TextLess(Tail(a), Tail(b))

\* ORDER BY publish_date ASC; rows with the same text come in id order
RECURSIVE order_by_publish_date(_)
order_by_publish_date(S) ==
    IF S = {} THEN <<>>
    ELSE LET m == CHOOSE x \in S : \A y \in S \ {x} :
                     \/ TextLess(publish_date(x), publish_date(y))
                     \/ publish_date(x) = publish_date(y) /\ x.id < y.id
         IN <<m>> \o order_by_publish_date(S \ {m})

Reverse(q) == [i \in 1..Len(q) |-> q[Len(q) + 1 - i]]

\* Repository.list_items(podcast_id, order, limit): podcast_id None is
\* NullInt, limit None is NoLimit; LIMIT with a negative number is no limit
list_items(its, podcast_id, order, limit) ==
    LET rows == IF podcast_id = NullInt THEN its
                ELSE { x \in its : x.podcast_id = podcast_id }
        asc == order_by_publish_date(rows)
        sorted == IF order = "asc" THEN asc ELSE Reverse(asc)
    IN IF limit = NoLimit \/ limit[1] < 0 \/ limit[1] >= Len(sorted) THEN sorted
       ELSE SubSeq(sorted, 1, limit[1])

\* GET /episodes?podcastId=&order=&limit=
list_episodes(its, podcastId, order, limit) == list_items(its, podcastId, order, limit)

\* count_items_for_podcast_ids that reports every requested id
count_items_zeroed(its, ids) ==
    [pid \in ids |-> Cardinality({ x \in its : x.podcast_id = pid })]

\* Repository.count_items_for_podcast_ids(ids):
\* SELECT podcast_id, count(*) ... WHERE podcast_id IN (ids) GROUP BY podcast_id,
\* one result[pid] = cnt per row of the answer; {} at once for no id
count_items_for_podcast_ids(its, ids) ==
    IF ids = {} THEN << >>
    ELSE LET selected == { x \in its : x.podcast_id \in ids }
             groups == { x.podcast_id : x \in selected }
         IN [pid \in groups |-> Cardinality({ x \in selected : x.podcast_id = pid })]

\* list_podcasts without the default of counts.get
list_podcasts_no_default(pods, its) ==
    LET counts == count_items_for_podcast_ids(its, { p.id : p \in pods })
    IN [status |-> 200,
        body |-> { [id |-> p.id, rss_url |-> p.rss_url, itunes_id |-> p.itunes_id,
                    suspended |-> p.suspended,
                    trackCount |-> IF p.id \in DOMAIN counts THEN counts[p.id] ELSE NullInt]
                   : p \in pods }]

\* GET /podcasts: repo.list_podcasts(), the counts of their ids, and one
\* entry per podcast with trackCount = counts.get(p.id, 0)
list_podcasts(pods, its) ==
    LET counts == count_items_for_podcast_ids(its, { p.id : p \in pods })
    IN [status |-> 200,
        body |-> { [id |-> p.id, rss_url |-> p.rss_url, itunes_id |-> p.itunes_id,
                    suspended |-> p.suspended,
                    trackCount |-> IF p.id \in DOMAIN counts THEN counts[p.id] ELSE 0]
                   : p \in pods }]

(***************************************************************************)
(* The check of a feed location before feedparser.parse, on each path.     *)
(* exists is os.path.exists(rss_url); the result tells how the fetch ended *)
(* and whether feedparser.parse was reached.                               *)
(***************************************************************************)
\* create_podcast: HTTPException(400, "RSS URL is not valid")
api_check_source(rss_url, exists) ==
    IF ~startswith_http(rss_url) /\ ~exists
    THEN [error |-> "invalid_source", parsed |-> FALSE]
    ELSE [error |-> "none", parsed |-> TRUE]

\* update_rss_items: the same two tests, in a module that never imports os:
\* evaluating os.path.exists raises NameError for every location that does
\* not start with "http"
sync_check_source(rss_url, exists) ==
    IF ~startswith_http(rss_url)
    THEN [error |-> "NameError", parsed |-> FALSE]
    ELSE [error |-> "none", parsed |-> TRUE]

\* importRssFeed: prints "File ... not exists." and returns
cli_check_source(rss_url, exists) ==
    IF ~startswith_http(rss_url) /\ ~exists
    THEN [error |-> "invalid_source", parsed |-> FALSE]
    ELSE [error |-> "none", parsed |-> TRUE]

(***************************************************************************)
(* Actions                                                                 *)
(***************************************************************************)
PodcastIds == 1..MaxPodcasts
ItemIds == 1..MaxItems

\* Handlers that run step by step next to other callers: the session of one
\* DELETE /podcasts/{id} call, and the sessions of two callers of
\* add_podcast_item_if_not_exists.  A handler that is not running is idle.
DelIdle == [pc |-> "idle", id |-> 0, mine |-> {}, favs |-> {}, pod |-> <<>>, lock |-> FALSE]
InsIdle == [pc |-> "idle"]

\* The last application of one of the pure helpers (track id derivation,
\* safe_filename, destination name): its inputs and its result.
NoCall == [fn |-> "none"]

\* The position of a run() inside its download loop: the rows its SELECT
\* returned, the index of the row the "for" is at, the updated counter, and
\* the transfers started and ended so far, in order.
DlIdle == [pc |-> "idle"]
Writers == {"w1", "w2"}

\* The publisher adds an entry to a feed document.
Publish ==
    \E src \in HttpSources : \E e \in EntryPool(src) :
        /\ Len(feeds[src]) < MaxFeedLen
        /\ \A i \in 1..Len(feeds[src]) : feeds[src][i] # e
        /\ feeds' = [feeds EXCEPT ![src] = Append(@, e)]
        /\ UNCHANGED <<call, dl, favorites, nextFavId, del, ins, podcasts, items, files, nextPodcastId, nextItemId>>

ApiCreatePodcast ==
    \E pl \in Payloads : create_podcast(pl[1], pl[2])

ApiSuspend == \E id \in PodcastIds : suspend_podcast(id, 1)

ApiContinue == \E id \in PodcastIds : suspend_podcast(id, 0)

SyncRun ==
    \E limit \in Limits, dry_run \in BOOLEAN : run(limit, dry_run)

CliDelete == \E id \in PodcastIds : deletePodcast(id)

CliFetch ==
    \E id \in PodcastIds :
        LET r == fetchPodcastItems(podcasts, items, nextItemId, id)
        IN /\ r.next <= MaxItems + 1
           /\ items' = r.items
           /\ nextItemId' = r.next
           /\ UNCHANGED <<call, dl, favorites, nextFavId, del, ins, podcasts, feeds, files, nextPodcastId>>

CliFetchAll ==
    LET r == fetchAllItems(podcasts, items, nextItemId)
    IN /\ r.next <= MaxItems + 1
       /\ items' = r.items
       /\ nextItemId' = r.next
       /\ UNCHANGED <<call, dl, favorites, nextFavId, del, ins, podcasts, feeds, files, nextPodcastId>>

CliDownloadAll ==
    \E outcome \in [Transferable(items) -> CliOutcomes] :
        LET r == dowloadAllPodcasts(podcasts, items, files, outcome)
        IN /\ items' = r.items
           /\ files' = r.files
           /\ UNCHANGED <<call, dl, favorites, nextFavId, del, ins, podcasts, feeds, nextPodcastId, nextItemId>>

CliSuspend ==
    \E id \in PodcastIds, suspend \in BOOLEAN :
        /\ podcasts' = suspendPodcast(podcasts, id, suspend)
        /\ UNCHANGED <<call, dl, favorites, nextFavId, del, ins, items, feeds, files, nextPodcastId, nextItemId>>

Init ==
    /\ podcasts = {}
    /\ items = {}
    /\ feeds = [src \in HttpSources |-> <<>>]
    /\ files = {}
    /\ nextPodcastId = 1
    /\ nextItemId = 1
    /\ favorites = {}
    /\ nextFavId = 1
    /\ del = DelIdle
    /\ ins = [w \in Writers |-> InsIdle]
    /\ call = NoCall
    /\ dl = DlIdle

Next ==
    \/ Publish
    \/ ApiCreatePodcast
    \/ ApiSuspend
    \/ ApiContinue
    \/ SyncRun
    \/ CliFetchAll
    \/ CliFetch
    \/ CliDownloadAll
    \/ CliSuspend
    \/ CliDelete

Spec == Init /\ [][Next]_vars

\* The catalog operations next to each other: creation through the API and
\* through the console, favorites, watched marks, suspension and deletion.
CatalogIds == { pl[1] : pl \in Payloads }

CliAdd ==
    \E id \in CatalogIds, feedUrl \in HttpSources :
        LET r == addPodcast(podcasts, items, nextPodcastId, nextItemId, id, feedUrl)
        IN /\ r.nextPodcast <= MaxPodcasts + 1
           /\ r.next <= MaxItems + 1
           /\ podcasts' = r.podcasts
           /\ items' = r.items
           /\ nextPodcastId' = r.nextPodcast
           /\ nextItemId' = r.next
           /\ UNCHANGED <<call, dl, feeds, files, favorites, nextFavId, del, ins>>

ApiDelete == \E id \in PodcastIds : delete_podcast(id)

ApiFavorite == \E id \in ItemIds : favorite_episode(id)

ApiUnfavorite == \E id \in ItemIds : unfavorite_episode(id)

ApiMarkWatched == \E id \in ItemIds : mark_episode_watched(id, 1)

ApiUnmarkWatched == \E id \in ItemIds : mark_episode_watched(id, 0)

NextCatalog ==
    \/ Publish
    \/ ApiCreatePodcast
    \/ CliAdd
    \/ ApiSuspend
    \/ ApiContinue
    \/ ApiFavorite
    \/ ApiUnfavorite
    \/ ApiMarkWatched
    \/ ApiUnmarkWatched
    \/ ApiDelete
    \/ CliDelete

SpecCatalog == Init /\ [][NextCatalog]_vars

(***************************************************************************)
(* DELETE /podcasts/{id} statement by statement, next to other callers.    *)
(* del is the session of delete_podcast_and_related: the rows it has       *)
(* selected and marked for deletion, and whether its connection holds the  *)
(* database's write lock (from the first DELETE it has sent to commit or   *)
(* rollback).  The store variables are what every other connection sees.   *)
(***************************************************************************)
\* what other connections see of `rows` once the session has flushed the
\* deletion of `pending` and every flush is committed at once
flushed_autocommit(rows, pending) == rows \ pending

\* what other connections see of `rows` once the session has flushed the
\* deletion of `pending`: nothing of it before s.commit()
flushed(rows, pending) == rows

\* items = s.exec(select(PodcastItem).where(podcast_id == ...)).all()
DelSelectItems ==
    \E id \in PodcastIds :
        /\ del.pc = "idle"
        /\ del' = [DelIdle EXCEPT !.pc = "items", !.id = id,
                                  !.mine = { x \in items : x.podcast_id = id }]
        /\ UNCHANGED <<call, dl, podcasts, items, feeds, files, nextPodcastId, nextItemId,
                       favorites, nextFavId, ins>>

\* for it in items: s.delete(it); if track_ids: favs = s.exec(select(...)).all()
\* (the query flushes the pending item deletions first); for f in favs: s.delete(f)
DelSelectFavorites ==
    /\ del.pc = "items"
    /\ LET track_ids == { x.track_id : x \in del.mine }
       IN IF track_ids # {}
          THEN /\ items' = flushed(items, del.mine)
               /\ del' = [del EXCEPT !.pc = "favs", !.lock = TRUE,
                            !.favs = { f \in favorites : f.track_id \in track_ids }]
          ELSE /\ items' = items
               /\ del' = [del EXCEPT !.pc = "favs"]
    /\ UNCHANGED <<call, dl, podcasts, feeds, files, nextPodcastId, nextItemId,
                   favorites, nextFavId, ins>>

\* p = s.get(Podcast, podcast_id) (flushes the pending favorite deletions);
\* if p: s.delete(p)
DelGetPodcast ==
    /\ del.pc = "favs"
    /\ favorites' = flushed(favorites, del.favs)
    /\ del' = [del EXCEPT !.pc = "podcast", !.pod = get_podcast(podcasts, del.id)]
    /\ UNCHANGED <<call, dl, podcasts, items, feeds, files, nextPodcastId, nextItemId,
                   nextFavId, ins>>

\* if deleted_any: s.commit()
DelCommit ==
    /\ del.pc = "podcast"
    /\ items' = items \ del.mine
    /\ favorites' = favorites \ del.favs
    /\ podcasts' = { p \in podcasts : del.pod = <<>> \/ p.id # del.id }
    /\ del' = DelIdle
    /\ UNCHANGED <<call, dl, feeds, files, nextPodcastId, nextItemId, nextFavId, ins>>

\* an exception, or the end of the process, at any statement: the session
\* is closed without commit and the database rolls back
DelFail ==
    /\ del.pc # "idle"
    /\ del' = DelIdle
    /\ UNCHANGED <<call, dl, podcasts, items, feeds, files, nextPodcastId, nextItemId,
                   favorites, nextFavId, ins>>

\* Another connection can write only while no connection holds the write lock.
Unlocked == ~del.lock

NextDelete ==
    \/ DelSelectItems
    \/ DelSelectFavorites
    \/ DelGetPodcast
    \/ DelCommit
    \/ DelFail
    \/ Publish
    \/ (Unlocked /\ ApiCreatePodcast)
    \/ (Unlocked /\ ApiFavorite)
    \/ (Unlocked /\ CliFetch)
    \/ (Unlocked /\ CliDelete)

SpecDelete == Init /\ [][NextDelete]_vars

(***************************************************************************)
(* add_podcast_item_if_not_exists, statement by statement, for two callers *)
(* (the POST /podcasts loop, or the loop of a sync run) on two connections *)
(***************************************************************************)
\* existing = s.exec(select ... podcast_id == ... & track_id == ...).first()
\* The SELECT takes no write lock and its read lock ends with the statement.
InsSelect(w) ==
    /\ ins[w].pc = "idle"
    /\ \E p \in podcasts : \E i \in 1..Len(parse_entries(p.rss_url)) :
         LET item == NewItem(p, parse_entries(p.rss_url)[i])
         IN ins' = [ins EXCEPT ![w] =
                      [pc |-> "selected", item |-> item,
                       existing |-> \E x \in items :
                                       /\ x.podcast_id = item.podcast_id
                                       /\ x.track_id = item.track_id]]
    /\ UNCHANGED <<call, dl, podcasts, items, feeds, files, nextPodcastId, nextItemId,
                   favorites, nextFavId, del>>

\* if existing: return existing
\* s.add(item); s.commit()     (the table declares no unique key)
InsAdd(w) ==
    /\ ins[w].pc = "selected"
    /\ IF ins[w].existing
       THEN UNCHANGED <<items, nextItemId>>
       ELSE /\ nextItemId <= MaxItems
            /\ items' = items \cup {[ins[w].item EXCEPT !.id = nextItemId]}
            /\ nextItemId' = nextItemId + 1
    /\ ins' = [ins EXCEPT ![w] = InsIdle]
    /\ UNCHANGED <<call, dl, podcasts, feeds, files, nextPodcastId, favorites, nextFavId, del>>

InsertSelect == \E w \in Writers : InsSelect(w)
InsertAdd == \E w \in Writers : InsAdd(w)

NextInsert ==
    \/ Publish
    \/ ApiCreatePodcast
    \/ InsertSelect
    \/ InsertAdd

SpecInsert == Init /\ [][NextInsert]_vars

\* The two callers of add_podcast_item_if_not_exists (the loop of a sync run
\* over the podcasts it selected, the loop of POST /podcasts) next to
\* DELETE /podcasts/{id}, which commits between two of their statements.
NextOrphan ==
    \/ Publish
    \/ ApiCreatePodcast
    \/ InsertSelect
    \/ InsertAdd
    \/ ApiDelete

SpecOrphan == Init /\ [][NextOrphan]_vars

\* run(limit, dry_run) statement by statement, next to the publisher and to
\* POST /podcasts, which insert rows while the run is inside its loop.
\* RunBegin is update_rss_items followed by the SELECT of the pending rows;
\* an exception of update_rss_items leaves run() before the SELECT.
RunBegin ==
    \E limit \in Limits, dry_run \in BOOLEAN :
        LET u == update_rss_items(podcasts, items, nextItemId)
        IN /\ dl.pc = "idle"
           /\ u.next <= MaxItems + 1
           /\ items' = u.items
           /\ nextItemId' = u.next
           /\ dl' = IF u.abort # "none" THEN DlIdle
                    ELSE [pc |-> "loop", todo |-> pending_items(u.items), i |-> 1,
                          updated |-> 0, limit |-> limit, dry_run |-> dry_run,
                          events |-> <<>>]
           /\ UNCHANGED <<call, favorites, nextFavId, del, ins, podcasts, feeds, files, nextPodcastId>>

\* "for it in items" has a row left and the limit is not reached
RunAtRow ==
    /\ dl.pc = "loop"
    /\ dl.i <= Len(dl.todo)
    /\ ~(dl.limit # NoLimit /\ dl.updated >= dl.limit[1])

\* if not it.media_url: continue
RunSkip ==
    /\ RunAtRow
    /\ dl.todo[dl.i].media_url = Null \/ dl.todo[dl.i].media_url = ""
    /\ dl' = [dl EXCEPT !.i = @ + 1]
    /\ UNCHANGED <<call, favorites, nextFavId, del, ins, podcasts, items, feeds, files,
                   nextPodcastId, nextItemId>>

\* if dry_run: ... continue
RunDry ==
    /\ RunAtRow
    /\ ~(dl.todo[dl.i].media_url = Null \/ dl.todo[dl.i].media_url = "")
    /\ dl.dry_run
    /\ dl' = [dl EXCEPT !.i = @ + 1]
    /\ UNCHANGED <<call, favorites, nextFavId, del, ins, podcasts, items, feeds, files,
                   nextPodcastId, nextItemId>>

\* download_one(client, it.media_url, dest) is called
RunTransferStart ==
    /\ RunAtRow
    /\ ~(dl.todo[dl.i].media_url = Null \/ dl.todo[dl.i].media_url = "")
    /\ ~dl.dry_run
    /\ dl' = [dl EXCEPT !.pc = "transfer",
                        !.events = Append(@, [id |-> dl.todo[dl.i].id, ev |-> "start"])]
    /\ UNCHANGED <<call, favorites, nextFavId, del, ins, podcasts, items, feeds, files,
                   nextPodcastId, nextItemId>>

\* download_one returns, and the row is committed, or it raises, and the
\* except clause goes on with the next row
RunTransferEnd ==
    \E outcome \in TransferOutcomes :
        LET it == dl.todo[dl.i]
        IN /\ dl.pc = "transfer"
           /\ dl' = [dl EXCEPT !.pc = "loop", !.i = @ + 1,
                               !.updated = IF outcome = "ok" THEN @ + 1 ELSE @,
                               !.events = Append(@, [id |-> it.id, ev |-> outcome])]
           /\ items' = IF outcome = "ok"
                       THEN { IF x.id = it.id
                              THEN [x EXCEPT !.filename = fname(it.podcast_id, it.track_id, it.title),
                                             !.downloaded = 1]
                              ELSE x : x \in items }
                       ELSE items
           /\ UNCHANGED <<call, favorites, nextFavId, del, ins, podcasts, feeds, files,
                          nextPodcastId, nextItemId>>

\* the loop is left: no row remains, or "break" on the limit
RunEnd ==
    /\ dl.pc = "loop"
    /\ ~RunAtRow
    /\ dl' = DlIdle
    /\ UNCHANGED <<call, favorites, nextFavId, del, ins, podcasts, items, feeds, files,
                   nextPodcastId, nextItemId>>

NextRun ==
    \/ Publish
    \/ ApiCreatePodcast
    \/ RunBegin
    \/ RunSkip
    \/ RunDry
    \/ RunTransferStart
    \/ RunTransferEnd
    \/ RunEnd

SpecRun == Init /\ [][NextRun]_vars

\* The pure helpers applied to drawn inputs.
IngestPaths == {"api_create", "sync_run", "cli_fetch"}
PublishInstants == {0, 3599, 82800, 86399, 86400, 90000, 172799, 172800}
UtcOffsets == {0 - 3600, 0, 3600}

NameChars == {"a", "7", ".", "-", "_", " ", "\t", "!"}
ShortNames == UNION { [1..n -> NameChars] : n \in 0..MaxNameLen }
Filler(n) == [i \in 1..n |-> "a"]
LongNames ==
    { Filler(NameLimit - 1) \o s : s \in ShortNames }
        \cup { s \o Filler(NameLimit - 1) : s \in ShortNames }
Names == ShortNames \cup LongNames

StoreFrame == UNCHANGED <<podcasts, items, feeds, files, nextPodcastId, nextItemId,
                          favorites, nextFavId, del, ins, dl>>

CallTrackId ==
    \E path \in IngestPaths, t \in PublishInstants, tz \in UtcOffsets :
        /\ call = NoCall
        /\ call' = [fn |-> "track_id", path |-> path, published |-> t,
                    utcoffset |-> tz, out |-> entry_track_id(t, tz)]
        /\ StoreFrame

CallSafeFilename ==
    \E name \in Names :
        /\ call = NoCall
        /\ call' = [fn |-> "safe_filename", name |-> name, out |-> safe_filename(name)]
        /\ StoreFrame

\* Episode rows whose destination name is derived: a title is never NULL in
\* a stored row (the API stores "No title", the console stores entry.title);
\* None is drawn for the sync driver, whose code tests for it.
NamingPaths == {"sync_run", "cli_download"}
UrlChars == {"a", ".", "/", "?"}
MediaUrls == UNION { [1..n -> UrlChars] : n \in 1..MaxUrlLen }
Titles == {<<>>, <<"a">>, <<" ">>, <<"a", " ", "!">>}
NamedPodcastIds == {1, 12}
NamedTrackIds == {86400000, 0 - 3600000}

CallFname ==
    \E path \in NamingPaths, pid \in NamedPodcastIds, tid \in NamedTrackIds,
       title \in Titles \cup {NoText}, url \in MediaUrls :
        /\ call = NoCall
        /\ path = "cli_download" => title # NoText
        /\ call' = [fn |-> "fname", path |-> path, podcast_id |-> pid,
                    track_id |-> tid, title |-> title, media_url |-> url,
                    out |-> IF path = "sync_run"
                            THEN derive_fname(pid, tid, title, url)
                            ELSE cli_derive_fname(pid, tid, title, url)]
        /\ StoreFrame

FetchPaths == {"api_create", "sync_run", "cli_import"}
Locations == Sources \cup {"feed.xml"}

CallCheckSource ==
    \E path \in FetchPaths, rss \in Locations, exists \in BOOLEAN :
        /\ call = NoCall
        /\ startswith_http(rss) => ~exists
        /\ call' = [fn |-> "check_source", path |-> path, rss_url |-> rss,
                    exists |-> exists,
                    out |-> CASE path = "api_create" -> api_check_source(rss, exists)
                              [] path = "sync_run" -> sync_check_source(rss, exists)
                              [] OTHER -> cli_check_source(rss, exists)]
        /\ StoreFrame

NextPure ==
    \/ CallTrackId
    \/ CallSafeFilename
    \/ CallFname
    \/ CallCheckSource

SpecPure == Init /\ [][NextPure]_vars

(***************************************************************************)
(* Shorthands used by the properties                                       *)
(***************************************************************************)
PodcastOf(it) == CHOOSE p \in podcasts : p.id = it.podcast_id
HasPodcast(it) == \E p \in podcasts : p.id = it.podcast_id
ItemById(its, id) == CHOOSE x \in its : x.id = id
LogIds(log) == { log[k].id : k \in 1..Len(log) }
\* transfers that completed ("tagfail": the transfer completed, tagging raised)
OkIds(log) == { log[k].id : k \in { j \in 1..Len(log) : log[j].outcome \in {"ok", "tagfail"} } }
\* transfers that failed, before or after the destination file was opened
FailedIds(log) == { log[k].id : k \in { j \in 1..Len(log) : log[j].outcome \in {"status", "midstream"} } }
AllOk(its) == [i \in Transferable(its) |-> "ok"]
SyncInputs(its) == [Transferable(its) -> TransferOutcomes]
CliInputs(its) == [Transferable(its) -> CliOutcomes]
Refreshed == update_rss_items(podcasts, items, nextItemId)
InvalidSource(p) == ~startswith_http(p.rss_url) /\ ~path_exists(p.rss_url)

\* C1: no two episode rows have the same (podcast_id, track_id).
C1_UniqueTrackKey ==
    \A a \in items, b \in items :
        (a.podcast_id = b.podcast_id /\ a.track_id = b.track_id) => a.id = b.id

\* C2: after a sync run (or a console fetch-all, or a console fetch of one
\* podcast) has been made, making the same fetch again on the unchanged feeds
\* inserts no episode row.
C2_SecondFetchInsertsNothing ==
    [][ /\ (\E limit \in Limits, dry_run \in BOOLEAN : run(limit, dry_run))
            => update_rss_items(podcasts', items', nextItemId').items = items'
        /\ CliFetchAll
            => fetchAllItems(podcasts', items', nextItemId').items = items'
      ]_vars

\* C3: when the refresh phase of a sync run finishes without raising, every
\* entry of the feed of every non-suspended podcast has its episode row.
C3_AllEntriesInserted ==
    [][ ((\E limit \in Limits, dry_run \in BOOLEAN : run(limit, dry_run))
            /\ Refreshed.abort = "none")
        => \A p \in {q \in podcasts : q.suspended = 0} :
             \A k \in 1..Len(parse_entries(p.rss_url)) :
               \E it \in items' : /\ it.podcast_id = p.id
                                  /\ it.track_id = TrackId(parse_entries(p.rss_url)[k])
      ]_vars

\* C4: a sync run started while some non-suspended podcast has an invalid
\* feed source still refreshes every other non-suspended podcast and still
\* runs its download phase.
C4_FeedFailureIsolated ==
    (\E p \in podcasts : p.suspended = 0 /\ InvalidSource(p))
    => \A limit \in Limits, dry_run \in BOOLEAN :
         LET r == sync_run(podcasts, items, nextItemId, limit, dry_run, AllOk(Refreshed.items))
         IN /\ r.downloadPhase
            /\ \A q \in podcasts : (q.suspended = 0 /\ ~InvalidSource(q)) => q.id \in r.refreshed

\* C5: a run started in any reachable state tries no transfer for an episode
\* that already has downloaded=1, and no step of any operation takes an
\* episode row from downloaded=1 to another value.
C5_NoTransferOfDownloaded ==
    /\ \A limit \in Limits, dry_run \in BOOLEAN :
         \A outcome \in SyncInputs(Refreshed.items) :
           \A id \in LogIds(sync_run(podcasts, items, nextItemId, limit, dry_run, outcome).log) :
             \A x \in items : x.id = id => x.downloaded # 1
    /\ \A outcome \in CliInputs(items) :
         \A id \in LogIds(dowloadAllPodcasts(podcasts, items, files, outcome).log) :
           \A x \in items : x.id = id => x.downloaded # 1

C5_DownloadedAtMostOnce ==
    /\ []C5_NoTransferOfDownloaded
    /\ [][ \A x \in items : x.downloaded = 1 =>
             \A y \in items' : y.id = x.id => y.downloaded = 1 ]_vars

\* C5 witness: an episode was downloaded by an earlier run and a later run
\* has another, pending episode with media to work on.
C5_Witness ==
    \E x \in items, y \in items :
        /\ x.downloaded = 1 /\ x.filename # NoName
        /\ y.downloaded = 0 /\ y.media_url = MediaUrlOf(y)
        /\ HasPodcast(y) /\ PodcastOf(y).suspended = 0

\* C6: when a transfer fails in a run, the episode keeps downloaded=0, and
\* the next run (no limit, not a dry run) of the same tool tries it again;
\* when all transfers of that next run succeed the episode has downloaded=1.
C6_FailedTransferRetried ==
    /\ \A outcome \in SyncInputs(Refreshed.items) :
         LET r1 == sync_run(podcasts, items, nextItemId, NoLimit, FALSE, outcome)
             r2 == sync_run(podcasts, r1.items, r1.next, NoLimit, FALSE, AllOk(r1.items))
         IN \A id \in FailedIds(r1.log) :
              /\ ItemById(r1.items, id).downloaded = 0
              /\ id \in OkIds(r2.log)
              /\ ItemById(r2.items, id).downloaded = 1
    /\ \A outcome \in CliInputs(items) :
         LET r1 == dowloadAllPodcasts(podcasts, items, files, outcome)
             r2 == dowloadAllPodcasts(podcasts, r1.items, r1.files, AllOk(r1.items))
         IN \A id \in FailedIds(r1.log) :
              /\ ItemById(r1.items, id).downloaded = 0
              /\ id \in OkIds(r2.log)
              /\ ItemById(r2.items, id).downloaded = 1

\* C7: a run sets downloaded=1 only on episodes whose transfer it completed
\* successfully, and never on an episode whose transfer failed in that run.
MarkedWithoutTransfer(before, after, log) ==
    { y.id : y \in { z \in after : /\ z.downloaded = 1
                                   /\ \E x \in before : x.id = z.id /\ x.downloaded # 1
                                   /\ z.id \notin OkIds(log) } }

C7_DownloadedOnlyAfterTransfer ==
    /\ \A limit \in Limits, dry_run \in BOOLEAN :
         \A outcome \in SyncInputs(Refreshed.items) :
           LET r == sync_run(podcasts, items, nextItemId, limit, dry_run, outcome)
           IN MarkedWithoutTransfer(Refreshed.items, r.items, r.log) = {}
    /\ \A outcome \in CliInputs(items) :
         LET r == dowloadAllPodcasts(podcasts, items, files, outcome)
         IN MarkedWithoutTransfer(items, r.items, r.log) = {}

\* C8: a sync run or a console fetch-all inserts no episode row for a
\* podcast that is suspended.
C8_SuspendedNotRefreshed ==
    [][ ((\E limit \in Limits, dry_run \in BOOLEAN : run(limit, dry_run)) \/ CliFetchAll)
        => \A y \in items' :
             (\A x \in items : x.id # y.id)
             => \A p \in podcasts : p.id = y.podcast_id => p.suspended = 0
      ]_vars

\* C9: no run tries a transfer for, or sets downloaded=1 on, an episode whose
\* owning podcast is suspended.
SuspendedItemIds(its) ==
    { x.id : x \in { z \in its : \E p \in podcasts : p.id = z.podcast_id /\ p.suspended = 1 } }

C9_SuspendedNotDownloaded ==
    /\ \A limit \in Limits, dry_run \in BOOLEAN :
         \A outcome \in SyncInputs(Refreshed.items) :
           LET r == sync_run(podcasts, items, nextItemId, limit, dry_run, outcome)
           IN /\ LogIds(r.log) \cap SuspendedItemIds(r.items) = {}
              /\ \A y \in r.items : (y.downloaded = 1 /\ y.id \in SuspendedItemIds(r.items))
                    => \E x \in items : x.id = y.id /\ x.downloaded = 1
    /\ \A outcome \in CliInputs(items) :
         LET r == dowloadAllPodcasts(podcasts, items, files, outcome)
         IN /\ LogIds(r.log) \cap SuspendedItemIds(r.items) = {}
            /\ \A y \in r.items : (y.downloaded = 1 /\ y.id \in SuspendedItemIds(r.items))
                  => \E x \in items : x.id = y.id /\ x.downloaded = 1

\* C10: a step that changes the suspended flag of a podcast changes nothing
\* else: exactly one podcast row differs, only in that flag, and the episode
\* rows and the downloaded files are the same.
C10_SuspendChangesOnlyFlag ==
    [][ (\E p \in podcasts, q \in podcasts' : p.id = q.id /\ p.suspended # q.suspended)
        => /\ items' = items
           /\ files' = files
           /\ { q.id : q \in podcasts' } = { p.id : p \in podcasts }
           /\ \A p \in podcasts, q \in podcasts' :
                p.id = q.id => [q EXCEPT !.suspended = p.suspended] = p
           /\ Cardinality(podcasts' \ podcasts) = 1
      ]_vars

\* C10 witness: a podcast that owns a downloaded episode is suspended while
\* another podcast is active.
C10_Witness ==
    \E p \in podcasts, q \in podcasts :
        /\ p.suspended = 1 /\ q.suspended = 0
        /\ \E x \in items : x.podcast_id = p.id /\ x.downloaded = 1
        /\ \E y \in items : y.podcast_id = q.id

\* --limit N values tried by the properties about the limit
CapLimits == {<<0>>, <<1>>, <<2>>}

HasMedia(x) == x.media_url # Null /\ x.media_url # ""

\* rows that have downloaded=1 in `after` and did not have it in `before`
NewlyDownloaded(before, after) ==
    { y.id : y \in { z \in after : /\ z.downloaded = 1
                                   /\ \E x \in before : x.id = z.id /\ x.downloaded # 1 } }

\* C11: a sync run (not a dry run) with limit N sets downloaded=1 on at most N episodes, all
\* of them successful transfers; and once an attempt has failed, a later
\* pending episode with media is left out of the run only if N transfers
\* had succeeded before its turn.
C11_LimitCountsSuccesses ==
    \A limit \in CapLimits :
      \A outcome \in SyncInputs(Refreshed.items) :
        LET r == sync_run(podcasts, items, nextItemId, limit, FALSE, outcome)
            todo == pending_items(Refreshed.items)
            done == NewlyDownloaded(Refreshed.items, r.items)
            okBefore(k) == { j \in 1..(k - 1) : todo[j].id \in OkIds(r.log) }
        IN /\ Cardinality(done) <= limit[1]
           /\ done = OkIds(r.log)
           /\ \A k \in 1..Len(todo) :
                ( /\ \E j \in 1..(k - 1) : todo[j].id \in FailedIds(r.log)
                  /\ HasMedia(todo[k])
                  /\ todo[k].id \notin LogIds(r.log) )
                => Cardinality(okBefore(k)) = limit[1]

\* C11 witness: a run can start here whose download phase finds at least two
\* pending episodes with media, so that a limit of 1 and a failed first
\* attempt both matter.
C11_Witness ==
    /\ Refreshed.abort = "none"
    /\ Refreshed.next <= MaxItems + 1
    /\ Cardinality({ x \in Refreshed.items : x.downloaded = 0 /\ HasMedia(x) }) >= 2

\* C12: a dry run makes no transfer and sets downloaded=1 on no episode, and
\* when its download phase has run, every pending episode that has a
\* media_url carries the intended filename in the store.
C12_DryRunRecordsFilename ==
    \A limit \in Limits :
      LET r == sync_run(podcasts, items, nextItemId, limit, TRUE, AllOk(Refreshed.items))
      IN /\ r.log = <<>>
         /\ NewlyDownloaded(Refreshed.items, r.items) = {}
         /\ r.downloadPhase =>
              \A x \in Refreshed.items : (x.downloaded # 1 /\ HasMedia(x)) =>
                ItemById(r.items, x.id).filename = fname(x.podcast_id, x.track_id, x.title)

\* C13: an episode without media_url never has downloaded=1, and no sync
\* run and no console download tries a transfer for it.
C13_NoMediaNeverAttempted ==
    /\ \A x \in items : ~HasMedia(x) => x.downloaded # 1
    /\ \A limit \in Limits, dry_run \in BOOLEAN :
         \A outcome \in SyncInputs(Refreshed.items) :
           \A id \in LogIds(sync_run(podcasts, items, nextItemId, limit, dry_run, outcome).log) :
             HasMedia(ItemById(Refreshed.items, id))
    /\ \A outcome \in CliInputs(items) :
         \A id \in LogIds(dowloadAllPodcasts(podcasts, items, files, outcome).log) :
           HasMedia(ItemById(items, id))

\* C14: in a console download, an episode whose transfer succeeded and whose
\* tagging then failed has downloaded=1 and its filename set after the run.
C14_TaggingFailureSuppressed ==
    \A outcome \in CliInputs(items) :
      LET r == dowloadAllPodcasts(podcasts, items, files, outcome)
      IN \A k \in 1..Len(r.log) :
           r.log[k].outcome = "tagfail" =>
             LET x == ItemById(r.items, r.log[k].id)
             IN /\ x.downloaded = 1
                /\ x.filename = fname(x.podcast_id, x.track_id, x.title)

\* The selection order of a console download: the non-suspended podcasts by
\* id, and for each one its rows with downloaded = 0, newest first.
RECURSIVE cli_selection(_, _, _)
cli_selection(rows, k, its) ==
    IF k > Len(rows) THEN <<>>
    ELSE SortDesc({ x \in its : x.podcast_id = rows[k].id /\ x.downloaded = 0 })
         \o cli_selection(rows, k + 1, its)

\* C15: in a run, every pending episode with media that comes after a failed
\* transfer in the selection order is attempted too (in a sync run: unless
\* the limit was reached before its turn).
C15_FailureDoesNotStopRun ==
    /\ \A limit \in Limits :
         \A outcome \in SyncInputs(Refreshed.items) :
           LET r == sync_run(podcasts, items, nextItemId, limit, FALSE, outcome)
               todo == pending_items(Refreshed.items)
           IN \A k \in 1..Len(todo) :
                ( /\ \E j \in 1..(k - 1) : todo[j].id \in FailedIds(r.log)
                  /\ HasMedia(todo[k])
                  /\ todo[k].id \notin LogIds(r.log) )
                => /\ limit # NoLimit
                   /\ Cardinality({ j \in 1..(k - 1) : todo[j].id \in OkIds(r.log) }) = limit[1]
    /\ \A outcome \in CliInputs(items) :
         LET r == dowloadAllPodcasts(podcasts, items, files, outcome)
             todo == cli_selection(SortAsc({ p \in podcasts : p.suspended = 0 }), 1, items)
         IN \A k \in 1..Len(todo) :
              ( /\ \E j \in 1..(k - 1) : todo[j].id \in FailedIds(r.log)
                /\ HasMedia(todo[k]) )
              => todo[k].id \in LogIds(r.log)

\* C16: no two podcast rows share an itunes_id, and a create call (POST
\* /podcasts, or the console's add) for an itunes_id that a podcast already
\* has leaves the podcast rows and the episode rows as they are.
C16_CreateIdempotent ==
    /\ \A p \in podcasts, q \in podcasts : p.itunes_id = q.itunes_id => p.id = q.id
    /\ \A pl \in Payloads :
         (\E p \in podcasts : p.itunes_id = pl[1]) =>
           LET r == api_create_podcast(podcasts, items, nextPodcastId, nextItemId,
                                       pl[1], pl[2])
           IN r.podcasts = podcasts /\ r.items = items /\ r.status = 200
    /\ \A id \in CatalogIds, feedUrl \in HttpSources :
         (\E p \in podcasts : p.itunes_id = id) =>
           LET r == addPodcast(podcasts, items, nextPodcastId, nextItemId, id, feedUrl)
           IN r.podcasts = podcasts /\ r.items = items

\* C17: after a podcast was deleted (through the API or the console) the
\* store has no episode row with its podcast_id, no favorite row with the
\* track_id of one of its episodes, and a lookup of the podcast answers
\* not-found.
C17_DeleteRemovesAll ==
    [][ \A id \in PodcastIds :
          ( /\ get_podcast(podcasts, id) # <<>>
            /\ delete_podcast(id) \/ deletePodcast(id) )
          => /\ \A x \in items' : x.podcast_id # id
             /\ \A f \in favorites' :
                  \A x \in items : x.podcast_id = id => f.track_id # x.track_id
             /\ get_podcast_detail(podcasts', id).status = 404
      ]_vars

C20_ConcurrentInsertOnce ==
    \A p \in PodcastIds : \A x \in items :
        x.podcast_id = p =>
            Cardinality({ y \in items : y.podcast_id = p /\ y.track_id = x.track_id }) = 1

\* C21: a dedup-insert of an entry whose (podcast_id, track_id) is already
\* stored changes no row and inserts none, and returns a stored row with
\* that key as it is stored, whatever the content of the entry.
C21_DedupInsertNoOp ==
    \A p \in podcasts : \A src \in HttpSources : \A e \in EntryPool(src) :
        LET item == NewItem(p, e)
            r == add_podcast_item_if_not_exists(items, nextItemId, item)
        IN (\E x \in items : x.podcast_id = item.podcast_id /\ x.track_id = item.track_id)
           => /\ r.items = items
              /\ r.next = nextItemId
              /\ r.row \in items
              /\ r.row.podcast_id = item.podcast_id
              /\ r.row.track_id = item.track_id

\* C21 witness: a downloaded row whose key is that of an entry with another
\* title and no enclosure.
C21_Witness ==
    \E x \in items : \E p \in podcasts : \E src \in HttpSources : \E e \in EntryPool(src) :
        /\ x.podcast_id = p.id
        /\ x.track_id = TrackId(e)
        /\ x.title # e.title
        /\ x.media_url # NewItem(p, e).media_url
        /\ x.downloaded = 1
        /\ x.filename # NoName

\* C22: on each ingestion path the track_id derived from an entry is the
\* number of milliseconds from the epoch to midnight UTC of the UTC calendar
\* day the entry was published on.
C22_TrackIdIsUtcMidnight ==
    call.fn = "track_id"
        => call.out = ((call.published \div 86400) * 86400) * 1000

\* The positions of a name that safe_filename keeps: the characters of
\* [A-Za-z0-9.\-_], and the first character of every whitespace run that has
\* a character other than whitespace on both sides.
KeptPositions(s) ==
    { i \in 1..Len(s) :
        \/ s[i] \notin Whitespace /\ IsSafe(s[i])
        \/ /\ s[i] \in Whitespace
           /\ i > 1
           /\ s[i - 1] \notin Whitespace
           /\ \E j \in (i + 1)..Len(s) : s[j] \notin Whitespace }

\* C25: the result of safe_filename has at most 240 characters, all of them
\* letters, digits, '.', '-' or '_'; it is the first 240 characters of the
\* name with every run of whitespace between two other characters replaced
\* by one hyphen and every other unsafe character (leading and trailing
\* whitespace included) removed; safe_filename of the result is the result.
C25_SafeFilename ==
    call.fn = "safe_filename"
        => LET s == call.name
               out == call.out
               K == KeptPositions(s)
           IN /\ Len(out) <= 240
              /\ \A n \in 1..Len(out) : out[n] \in Letters \cup Digits \cup {".", "-", "_"}
              /\ Len(out) = IF Cardinality(K) < 240 THEN Cardinality(K) ELSE 240
              /\ \A i \in K :
                   LET n == Cardinality({ j \in K : j <= i })
                   IN n <= Len(out)
                        => out[n] = IF s[i] \in Whitespace THEN "-" ELSE s[i]
              /\ safe_filename(out) = out

\* C25 witness: a name of more than 240 characters with a run of two
\* whitespace characters inside it, cut to 240 characters.
C25_Witness ==
    /\ call.fn = "safe_filename"
    /\ Len(call.name) > 240
    /\ \E i \in 2..(Len(call.name) - 2) :
         /\ call.name[i] \in Whitespace
         /\ call.name[i + 1] \in Whitespace
         /\ call.name[i - 1] \notin Whitespace
         /\ call.name[i + 2] \notin Whitespace
    /\ Len(call.out) = 240

\* The extension of a URL up to its query string: in the last path segment
\* (slashes and lone dots at the end do not count), the characters from the
\* last dot on, when that dot is neither the first nor the last character
\* of the segment.
UrlExtension(url) ==
    LET cut == { i \in 1..Len(url) : url[i] = "?" /\ \A j \in 1..(i - 1) : url[j] # "?" }
        len == IF cut = {} THEN Len(url) ELSE (CHOOSE i \in cut : TRUE) - 1
        Lone(k) == /\ url[k] = "."
                   /\ (k = 1 \/ url[k - 1] = "/")
                   /\ (k = len \/ url[k + 1] = "/")
        body == { k \in 1..len : url[k] # "/" /\ ~Lone(k) }
    IN IF body = {} THEN <<>>
       ELSE LET e == CHOOSE k \in body : \A j \in body : j <= k
                seg == { k \in 1..e : \A j \in k..e : url[j] # "/" }
                b == CHOOSE k \in seg : \A j \in seg : k <= j
                dots == { k \in seg : url[k] = "." /\ \A j \in (k + 1)..e : url[j] # "." }
            IN IF dots = {} THEN <<>>
               ELSE LET d == CHOOSE k \in dots : TRUE
                    IN IF d > b /\ d < e THEN [i \in 1..(e - d + 1) |-> url[d + i - 1]]
                       ELSE <<>>

\* C26: the destination name is "pod", the podcast id, "-trk", the track id,
\* "-", the title part and the extension; the title part is safe_filename
\* of the title, or of "track-" and the track id when the title is empty or
\* missing; the extension is that of the media URL up to its query string,
\* or ".mp3" when it has none.  Sync driver and console agree.
C26_DestinationName ==
    call.fn = "fname"
        => LET tid == digits(call.track_id)
               title_part == IF call.title = <<>> \/ call.title = NoText
                             THEN <<"t", "r", "a", "c", "k", "-">> \o tid
                             ELSE safe_filename(call.title)
               ext == IF UrlExtension(call.media_url) = <<>>
                      THEN <<".", "m", "p", "3">>
                      ELSE UrlExtension(call.media_url)
           IN call.out = <<"p", "o", "d">> \o digits(call.podcast_id)
                            \o <<"-", "t", "r", "k">> \o tid \o <<"-">>
                            \o title_part \o ext

\* C26 witness: the console names an episode with an empty title whose media
\* URL has an extension followed by a query string.
C26_Witness ==
    /\ call.fn = "fname"
    /\ call.path = "cli_download"
    /\ call.title = <<>>
    /\ call.media_url = <<"a", ".", "a", "?">>
    /\ call.out = <<"p", "o", "d", "1", "2", "-", "t", "r", "k", "-", "3", "6", "0",
                    "0", "0", "0", "0", "-", "t", "r", "a", "c", "k", "-", "-", "3",
                    "6", "0", "0", "0", "0", "0", ".", "a">>

\* Requests of GET /episodes the properties go through.
EpisodeFilters == PodcastIds \cup {NullInt}
EpisodeOrders == {"asc", "desc", "newest"}
EpisodeLimits == {NoLimit, <<0>>, <<1>>, <<2>>}

\* C23: listEpisodes returns rows of the store, none twice, of the given
\* podcast only when one is given, in ascending order of publish date when
\* order is 'asc' and in descending order otherwise, and at most limit rows
\* when a limit is given.
C23_ListEpisodes ==
    \A f \in EpisodeFilters, o \in EpisodeOrders, l \in EpisodeLimits :
        LET r == list_episodes(items, f, o, l)
        IN /\ \A i \in 1..Len(r) : r[i] \in items /\ (f # NullInt => r[i].podcast_id = f)
           /\ \A i, j \in 1..Len(r) : i < j => r[i] # r[j]
           /\ l # NoLimit => Len(r) <= l[1]
           /\ \A i, j \in 1..Len(r) :
                i < j => IF o = "asc" THEN r[i].track_id <= r[j].track_id
                         ELSE r[i].track_id >= r[j].track_id

\* Rows of one podcast, and the id lists the counts are asked for (the ids
\* the store can hold and one it never holds).
EpisodesOf(pid) == { x \in items : x.podcast_id = pid }
CountedIdLists == SUBSET (PodcastIds \cup {MaxPodcasts + 1})

\* C24: countEpisodesByPodcast(ids) maps exactly the requested ids that own
\* an episode row, each to the number of its episode rows; no id gives the
\* empty mapping.
C24_CountEpisodesByPodcast ==
    \A ids \in CountedIdLists :
        LET r == count_items_for_podcast_ids(items, ids)
        IN /\ DOMAIN r = { pid \in ids : EpisodesOf(pid) # {} }
           /\ \A pid \in DOMAIN r : r[pid] = Cardinality(EpisodesOf(pid))
           /\ ids = {} => r = << >>

\* C24 witness: one stored podcast owns two episode rows and another none.
C24_Witness ==
    \E p, q \in podcasts :
        /\ Cardinality(EpisodesOf(p.id)) = 2
        /\ EpisodesOf(q.id) = {}

C27_InvalidSourceBeforeParse ==
    (call.fn = "check_source" /\ ~startswith_http(call.rss_url) /\ ~call.exists)
        => call.out.error = "invalid_source" /\ ~call.out.parsed

\* C28: after any sequence of favorite and unfavorite calls the favorites
\* table holds at most one row per track_id.
C28_OneFavoritePerTrack ==
    \A f, g \in favorites : f.track_id = g.track_id => f = g

\* C30: in every reachable state an episode row with downloaded = 1 has a
\* filename that is neither NULL nor empty, and a media_url.
C30_DownloadedHasFileAndMedia ==
    \A x \in items :
        x.downloaded = 1
            => /\ x.filename # NoName
               /\ x.filename # EmptyName
               /\ x.media_url # Null
               /\ x.media_url # ""

\* C33: a POST /podcasts call that is refused because the feed location is
\* invalid (status 400) persists no podcast row and no episode row.
C33_FailedCreateLeavesStore ==
    \A pl \in Payloads :
        LET r == api_create_podcast(podcasts, items, nextPodcastId, nextItemId,
                                    pl[1], pl[2])
        IN r.status = 400 => r.podcasts = podcasts /\ r.items = items

\* C34: DELETE /podcasts/{A} keeps every favorite whose track_id is carried
\* by an episode of another stored podcast, every episode row of another
\* podcast and every other podcast row.
C34_DeleteKeepsOthers ==
    \A A \in PodcastIds :
        LET r == delete_podcast_and_related(podcasts, items, favorites, A)
        IN /\ \A f \in favorites :
                (\E x \in items : \E p \in podcasts :
                    /\ p.id # A
                    /\ x.podcast_id = p.id
                    /\ x.track_id = f.track_id)
                => f \in r.favorites
           /\ \A x \in items : x.podcast_id # A => x \in r.items
           /\ \A p \in podcasts : p.id # A => p \in r.podcasts

\* C35: when the removal of the favorite of an episode reports success, no
\* favorite row with the track_id of that episode remains.
C35_UnfavoriteRemovesAll ==
    \A x \in items :
        LET r == remove_favorite_episode(favorites, x.track_id)
        IN r.ok => \A f \in r.favorites : f.track_id # x.track_id

\* C36: the store update that ends a successful console download of one
\* pending episode changes that episode row only: every other episode row
\* is left as it was.
C36_CliDownloadMarksOneRow ==
    \A x \in items :
        (x.downloaded = 0 /\ x.media_url # "" /\ x.media_url # Null)
            => LET after == updateDownloadedState(items, x.guid,
                                fname(x.podcast_id, x.track_id, x.title))
               IN \A y \in items : y.id # x.id => y \in after

\* C32: every episode row the feed refresh of a sync run inserts belongs to
\* a stored, non-suspended podcast and is the row built from an entry of
\* that podcast's own feed.
C32_InsertedFromOwnFeed ==
    \A y \in Refreshed.items :
        y \notin items
            => \E p \in podcasts :
                 /\ p.id = y.podcast_id
                 /\ p.suspended = 0
                 /\ \E i \in 1..Len(parse_entries(p.rss_url)) :
                      [y EXCEPT !.id = 0] = NewItem(p, parse_entries(p.rss_url)[i])

\* C32 witness: a refresh that inserts a row for one podcast and then goes
\* on, with that item still bound, to a podcast whose feed has no entry.
C32_Witness ==
    /\ Refreshed.abort = "none"
    /\ Refreshed.items # items
    /\ \E p, q \in podcasts :
         /\ p.suspended = 0
         /\ q.suspended = 0
         /\ p.id < q.id
         /\ parse_entries(q.rss_url) = <<>>
         /\ \E y \in Refreshed.items \ items : y.podcast_id = p.id

\* C37: whatever the interleaving of the inserts of sync runs and API
\* creates with podcast deletions, every episode row belongs to a stored
\* podcast.
C37_NoOrphanEpisode ==
    \A x \in items : \E p \in podcasts : p.id = x.podcast_id

\* C31: within one run the pending episodes are attempted one at a time in
\* strictly descending order of their store id: a transfer starts only when
\* the one before it has ended, in success or failure, every attempted row
\* was pending when the run selected its rows, and each attempt is for a
\* smaller id than the attempts before it.
C31_OneAtATimeDescending ==
    dl.pc # "idle" =>
        LET ev == dl.events
        IN /\ \A k \in 1..Len(ev) :
                  IF k % 2 = 1
                  THEN /\ ev[k].ev = "start"
                       /\ \E j \in 1..Len(dl.todo) :
                              /\ dl.todo[j].id = ev[k].id
                              /\ dl.todo[j].downloaded \in {0, NullInt}
                  ELSE /\ ev[k].ev \in TransferOutcomes
                       /\ ev[k].id = ev[k - 1].id
           /\ (Len(ev) % 2 = 1) <=> (dl.pc = "transfer")
           /\ \A j, k \in 1..Len(ev) :
                  (j < k /\ ev[j].ev = "start" /\ ev[k].ev = "start")
                      => ev[j].id > ev[k].id

\* a run whose first transfer failed and whose second transfer has ended
C31_Witness ==
    /\ dl.pc = "loop"
    /\ Len(dl.events) = 4
    /\ dl.events[2].ev # "ok"
    /\ dl.events[3].id < dl.events[1].id

====
